---- MODULE Spec2Model ----
(***************************************************************************)
(* coverburn: heuristic finder of "cover slide" DICOM files.               *)
(*                                                                         *)
(* Two scripts are modelled:                                               *)
(*   variant 1  src/src/cover_scout.py  (is_potential_cover_slide,         *)
(*              analyze_dicom_file, find_dicom_files, main)                *)
(*   variant 2  src/src/coverscout.py   (safe_get, ratio, score_dicom,     *)
(*              iter_candidates, main)                                     *)
(*                                                                         *)
(* A DICOM dataset is a record of optional fields: <<>> is an absent       *)
(* attribute, <<v>> a present one with value v.  Strings are atoms of a    *)
(* finite universe; upper(), lower(), startswith() and the substring test  *)
(* `in` are tables over that universe.  A reason is identified by the      *)
(* literal part of the string the code appends; the interpolated value is  *)
(* not kept.                                                               *)
(***************************************************************************)
EXTENDS Integers, Sequences, FiniteSets, TLC

VARIABLES
    variant,      \* 1 = cover_scout.py, 2 = coverscout.py
    pc,           \* position in main (or in the scorer run)
    args,         \* parsed command line: min_score, limit, csv
    ds,           \* dataset handed to the scorer (scorer runs only)
    analysis,     \* what the scorer returned or that it raised (scorer runs only)
    walked,       \* number of directory entries visited so far; the next path is walked + 1
    cur,          \* history: the entry visited last and whether the locator yielded it
    dicom_files,  \* variant 1: list built by find_dicom_files
    results,      \* variant 1: main's results list
    cover_slides, \* variant 1: main's cover_slides list
    rows_out,     \* variant 2: main's rows_out list
    count,        \* variant 2: main's count
    csv_file,     \* variant 2: rows written to the CSV file, <<>> when none
    considered,   \* history: number of files the metadata reader was invoked on
    collected     \* history: the findings in append order, as they were before the sort

vars == <<variant, pc, args, ds, analysis, walked, cur, dicom_files, results,
          cover_slides, rows_out, count, csv_file, considered, collected>>

----------------------------------------------------------------------------
(* Bounds of the model *)

MaxFiles == 3
MaxLimit == 2

----------------------------------------------------------------------------
(* Strings *)

\* str.upper() on the strings of the universe
Upper(s) ==
    CASE s = "ot" -> "OT"
      [] s = "yes" -> "YES"
      [] OTHER -> s

\* str.lower() on the strings of the universe
Lower(s) ==
    CASE s = "Cover Sheet" -> "cover sheet"
      [] s = "Scanned Report" -> "scanned report"
      [] s = "AXIAL 5mm" -> "axial 5mm"
      [] s = "ORIGINAL" -> "original"
      [] s = "PRIMARY" -> "primary"
      [] s = "DERIVED" -> "derived"
      [] s = "SECONDARY" -> "secondary"
      [] s = "LOCALIZER" -> "localizer"
      [] s = "SCREEN SAVE" -> "screen save"
      [] s = ".DAT" -> ".dat"
      [] OTHER -> s

\* proper substrings among the strings of the universe: <<haystack, needle>>
ProperSubstrings ==
    { <<"SCREEN SAVE", "SCREEN">>, <<"SCREEN SAVE", "SAVE">>,
      <<"cover sheet", "cover">>,
      <<"scanned report", "scanned">>, <<"scanned report", "report">>,
      <<"1.2.840.10008.5.1.4.1.1.11.1", "1.2.840.10008.5.1.4.1.1.11">> }

\* Python's `needle in haystack` for two strings
Contains(haystack, needle) ==
    haystack = needle \/ <<haystack, needle>> \in ProperSubstrings

\* `needle in text` where text is the tokens joined by a separator no needle spans
JoinContains(tokens, needle) ==
    \E i \in 1..Len(tokens) : Contains(tokens[i], needle)

\* str.startswith("MONOCHROME")
StartsWithMonochrome(s) == s \in {"MONOCHROME1", "MONOCHROME2"}

----------------------------------------------------------------------------
(* Datasets *)

FieldNames ==
    {"ImageType", "InstanceNumber", "BurnedInAnnotation", "SOPClassUID",
     "ConversionType", "Rows", "Columns", "Modality",
     "PhotometricInterpretation", "SamplesPerPixel", "SeriesDescription"}

\* a dataset with no attribute at all
NoFields == [f \in FieldNames |-> <<>>]

\* hasattr(ds, name)
hasattr(d, name) == d[name] # <<>>

Opt(S) == {<<>>} \cup {<<v>> : v \in S}

ImageTypes ==
    { <<"ORIGINAL", "PRIMARY">>, <<"DERIVED", "SECONDARY">>,
      <<"ORIGINAL", "PRIMARY", "LOCALIZER">>,
      <<"DERIVED", "SECONDARY", "SCREEN SAVE">> }

\* pixel dimensions the datasets are drawn from
Dims == {0, 10, 13, 16, 512, 1024}

\* datasets over the attributes cover_scout.py reads
Datasets1 ==
    { [NoFields EXCEPT !.ImageType = it, !.InstanceNumber = inum,
                       !.BurnedInAnnotation = b, !.SOPClassUID = uid,
                       !.ConversionType = ct, !.Rows = r, !.Columns = c] :
        it \in Opt(ImageTypes), inum \in Opt({1, 2}),
        b \in Opt({"YES", "NO", "yes"}),
        uid \in Opt({"1.2.840.10008.5.1.4.1.1.7", "1.2.840.10008.5.1.4.1.1.11.1",
                     "1.2.840.10008.5.1.4.1.1.2"}),
        ct \in Opt({"WSD", "DF"}), r \in Opt(Dims), c \in Opt(Dims) }

\* datasets over the attributes coverscout.py reads
Datasets2 ==
    { [NoFields EXCEPT !.Modality = m, !.PhotometricInterpretation = ph,
                       !.SamplesPerPixel = sp, !.SeriesDescription = sd,
                       !.ImageType = it, !.BurnedInAnnotation = b,
                       !.Rows = r, !.Columns = c] :
        m \in Opt({"CT", "ot", "MR"}),
        ph \in Opt({"MONOCHROME2", "RGB", "YBR_FULL"}),
        sp \in Opt({1, 3}),
        sd \in Opt({"AXIAL 5mm", "Cover Sheet", "Scanned Report"}),
        it \in Opt({<<"ORIGINAL", "PRIMARY">>, <<"DERIVED", "SECONDARY">>}),
        b \in Opt({"YES", "yes"}), r \in Opt(Dims), c \in Opt(Dims) }

----------------------------------------------------------------------------
(* The scorers.  acc is the pair of locals (score, reasons); each rule is    *)
(* one `if` block of the function.                                           *)

Acc0 == [score |-> 0, reasons |-> <<>>]

\* score += w ; reasons.append(reason)
Fire(acc, w, reason) ==
    [score |-> acc.score + w, reasons |-> Append(acc.reasons, reason)]

(* ---- variant 1: is_potential_cover_slide ---- *)

ImageTypeRules1(acc, d) ==
    IF ~hasattr(d, "ImageType") THEN acc
    ELSE LET image_type == [i \in 1..Len(d.ImageType[1]) |-> Upper(d.ImageType[1][i])]
             a1 == IF JoinContains(image_type, "SECONDARY")
                   THEN Fire(acc, 3, "Image Type: SECONDARY") ELSE acc
             a2 == IF JoinContains(image_type, "LOCALIZER")
                      \/ JoinContains(image_type, "SCOUT")
                   THEN Fire(a1, 5, "Image Type: LOCALIZER/SCOUT") ELSE a1
         IN IF JoinContains(image_type, "SCREEN") \/ JoinContains(image_type, "SAVE")
            THEN Fire(a2, 4, "Image Type: SCREEN SAVE") ELSE a2

InstanceNumberRule1(acc, d) ==
    IF hasattr(d, "InstanceNumber") /\ d.InstanceNumber[1] = 1
    THEN Fire(acc, 2, "Instance Number: 1") ELSE acc

BurnedRule1(acc, d) ==
    IF hasattr(d, "BurnedInAnnotation") /\ d.BurnedInAnnotation[1] = "YES"
    THEN Fire(acc, 5, "Burned In Annotation: YES") ELSE acc

SOPClassRule1(acc, d) ==
    IF ~hasattr(d, "SOPClassUID") THEN acc
    ELSE IF d.SOPClassUID[1] = "1.2.840.10008.5.1.4.1.1.7"
         THEN Fire(acc, 4, "SOP Class: Secondary Capture")
         ELSE IF Contains(d.SOPClassUID[1], "1.2.840.10008.5.1.4.1.1.11")
              THEN Fire(acc, 3, "SOP Class: Presentation State")
              ELSE acc

ConversionTypeRule1(acc, d) ==
    IF hasattr(d, "ConversionType") /\ d.ConversionType[1] \in {"WSD", "SI", "DV"}
    THEN Fire(acc, 3, "Conversion Type") ELSE acc

\* ds.Columns / ds.Rows raises ZeroDivisionError when Rows is 0
AspectRaises1(d) ==
    hasattr(d, "Rows") /\ hasattr(d, "Columns") /\ d.Rows[1] = 0

\* aspect_ratio > 1.5 or aspect_ratio < 0.6, with aspect_ratio = Columns / Rows
AspectRule1(acc, d) ==
    IF hasattr(d, "Rows") /\ hasattr(d, "Columns")
       /\ (2 * d.Columns[1] > 3 * d.Rows[1] \/ 10 * d.Columns[1] < 6 * d.Rows[1])
    THEN Fire(acc, 1, "Unusual aspect ratio") ELSE acc

\* the hard-coded threshold of the returned is_cover_slide flag
IsCoverSlideFlag(score) == score >= 3

is_potential_cover_slide(d) ==
    LET a1 == ImageTypeRules1(Acc0, d)
        a2 == InstanceNumberRule1(a1, d)
        a3 == BurnedRule1(a2, d)
        a4 == SOPClassRule1(a3, d)
        a5 == ConversionTypeRule1(a4, d)
    IN IF AspectRaises1(d)
       THEN [raised |-> TRUE]
       ELSE LET a6 == AspectRule1(a5, d)
            IN [raised |-> FALSE, score |-> a6.score, reasons |-> a6.reasons,
                is_cover_slide |-> IsCoverSlideFlag(a6.score)]

(* ---- variant 2: safe_get, ratio, score_dicom ---- *)

SERIES_HINTS ==
    <<"cover", "label", "slide", "title", "front", "burn", "debug", "deid",
      "doc", "scan doc", "scanned", "report">>

NON_CT_MODALITIES == {"OT", "SC", "SM", "XC", "DOC", "PR"}

\* getattr(ds, name), default when it raises
safe_get(d, name, default) == IF d[name] = <<>> THEN default ELSE d[name][1]

\* max(r, c) / min(r, c) as the fraction <<numerator, denominator>>; 1.0 when either is 0
ratio(rows, cols) ==
    IF rows = 0 \/ cols = 0 THEN <<1, 1>>
    ELSE <<IF rows >= cols THEN rows ELSE cols, IF rows >= cols THEN cols ELSE rows>>

\* Python truthiness of safe_get(ds, "Rows", None): None and 0 are false
Truthy(d, name) == hasattr(d, name) /\ d[name][1] # 0

ModalityOf(d) == Upper(safe_get(d, "Modality", ""))
PhotometricOf(d) == Upper(safe_get(d, "PhotometricInterpretation", ""))

ModalityRule2(acc, d) ==
    IF ModalityOf(d) \in NON_CT_MODALITIES THEN Fire(acc, 4, "modality=") ELSE acc

PhotometricRule2(acc, d) ==
    IF PhotometricOf(d) \in {"RGB", "PALETTE COLOR", "YBR_FULL", "YBR_FULL_422"}
    THEN Fire(acc, 3, "photometric=") ELSE acc

\* a rule that adds its weight and forgets the reason
SamplesRule2Silent(acc, d) ==
    IF hasattr(d, "SamplesPerPixel") /\ d.SamplesPerPixel[1] = 3
    THEN [acc EXCEPT !.score = acc.score + 2] ELSE acc

SamplesRule2(acc, d) ==
    IF hasattr(d, "SamplesPerPixel") /\ d.SamplesPerPixel[1] = 3
    THEN Fire(acc, 2, "samples_per_pixel=3") ELSE acc

\* for kw in SERIES_HINTS: if kw in series_desc: ...; break
SeriesRule2(acc, d) ==
    LET series_desc == Lower(safe_get(d, "SeriesDescription", ""))
    IN IF \E i \in 1..Len(SERIES_HINTS) : Contains(series_desc, SERIES_HINTS[i])
       THEN Fire(acc, 2, "series_desc~") ELSE acc

ImageTypeRule2(acc, d) ==
    LET tokens == safe_get(d, "ImageType", <<>>)
        image_type == [i \in 1..Len(tokens) |-> Lower(tokens[i])]
    IN IF JoinContains(image_type, "secondary") \/ JoinContains(image_type, "derived")
       THEN Fire(acc, 1, "image_type=secondary/derived") ELSE acc

BurnedRule2(acc, d) ==
    IF Upper(safe_get(d, "BurnedInAnnotation", "")) = "YES"
    THEN Fire(acc, 1, "burned_in_annotation=YES") ELSE acc

\* ar >= 1.3
AspectRule2(acc, d) ==
    IF Truthy(d, "Rows") /\ Truthy(d, "Columns")
    THEN LET ar == ratio(d.Rows[1], d.Columns[1])
         IN IF 10 * ar[1] >= 13 * ar[2] THEN Fire(acc, 1, "aspect_ratio") ELSE acc
    ELSE acc

\* the size test as two independent `if`s: the `else` is lost
CTRule2NoElse(acc, d) ==
    IF Truthy(d, "Rows") /\ Truthy(d, "Columns")
       /\ ModalityOf(d) = "CT" /\ StartsWithMonochrome(PhotometricOf(d))
    THEN LET a == IF d.Rows[1] \in {512, 1024} /\ d.Columns[1] \in {512, 1024}
                  THEN Fire(acc, -3, "ct_like_square_slice") ELSE acc
         IN Fire(a, -1, "ct_grayscale")
    ELSE acc

\* nested in `if rows and cols`
CTRule2(acc, d) ==
    IF Truthy(d, "Rows") /\ Truthy(d, "Columns")
       /\ ModalityOf(d) = "CT" /\ StartsWithMonochrome(PhotometricOf(d))
    THEN IF d.Rows[1] \in {512, 1024} /\ d.Columns[1] \in {512, 1024}
         THEN Fire(acc, -3, "ct_like_square_slice")
         ELSE Fire(acc, -1, "ct_grayscale")
    ELSE acc

UnknownModalityRule2(acc, d) ==
    IF ModalityOf(d) = ""
       /\ (PhotometricOf(d) \in {"RGB", "PALETTE COLOR"}
           \/ (hasattr(d, "SamplesPerPixel") /\ d.SamplesPerPixel[1] = 3))
    THEN Fire(acc, 1, "unknown_modality_but_colorish") ELSE acc

score_dicom(d) ==
    LET a1 == ModalityRule2(Acc0, d)
        a2 == PhotometricRule2(a1, d)
        a3 == SamplesRule2(a2, d)
        a4 == SeriesRule2(a3, d)
        a5 == ImageTypeRule2(a4, d)
        a6 == BurnedRule2(a5, d)
        a7 == AspectRule2(a6, d)
        a8 == CTRule2(a7, d)
        a9 == UnknownModalityRule2(a8, d)
    IN [raised |-> FALSE, score |-> a9.score, reasons |-> a9.reasons]

----------------------------------------------------------------------------
(* Scorer runs: one dataset, one call of the variant's scorer *)

NoArgs == [min_score |-> 3, limit |-> 0, csv |-> FALSE]
NoEntry == [kind |-> "none"]

InitScore ==
    /\ variant \in {1, 2}
    /\ ds \in (IF variant = 1 THEN Datasets1 ELSE Datasets2)
    /\ pc = "call"
    /\ analysis = [raised |-> FALSE, score |-> 0, reasons |-> <<>>]
    /\ args = NoArgs
    /\ walked = 0 /\ cur = NoEntry /\ considered = 0
    /\ dicom_files = <<>> /\ results = <<>> /\ cover_slides = <<>>
    /\ rows_out = <<>> /\ count = 0 /\ csv_file = <<>> /\ collected = <<>>

Score1 ==
    /\ pc = "call" /\ variant = 1
    /\ analysis' = is_potential_cover_slide(ds)
    /\ pc' = "returned"
    /\ UNCHANGED <<variant, args, ds, walked, cur, dicom_files, results,
                   cover_slides, rows_out, count, csv_file, considered, collected>>

Score2 ==
    /\ pc = "call" /\ variant = 2
    /\ analysis' = score_dicom(ds)
    /\ pc' = "returned"
    /\ UNCHANGED <<variant, args, ds, walked, cur, dicom_files, results,
                   cover_slides, rows_out, count, csv_file, considered, collected>>

NextScore == Score1 \/ Score2

SpecScore == InitScore /\ [][NextScore]_vars

----------------------------------------------------------------------------
(* Directory entries and the locators *)

\* datasets the reader returns in pipeline runs of cover_scout.py
Pool1 ==
    << NoFields,
       [NoFields EXCEPT !.InstanceNumber = <<1>>],
       [NoFields EXCEPT !.ImageType = <<<<"DERIVED", "SECONDARY">>>>],
       [NoFields EXCEPT !.ImageType = <<<<"DERIVED", "SECONDARY">>>>,
                        !.Rows = <<0>>, !.Columns = <<512>>] >>

\* datasets the reader returns in pipeline runs of coverscout.py
Pool2 ==
    << [NoFields EXCEPT !.Modality = <<"CT">>,
                        !.PhotometricInterpretation = <<"MONOCHROME2">>,
                        !.Rows = <<512>>, !.Columns = <<512>>],
       [NoFields EXCEPT !.Modality = <<"ot">>,
                        !.PhotometricInterpretation = <<"RGB">>,
                        !.SamplesPerPixel = <<3>>],
       NoFields,
       [NoFields EXCEPT !.SeriesDescription = <<"Cover Sheet">>] >>

Pool == IF variant = 1 THEN Pool1 ELSE Pool2

\* one entry met by the directory walk: whether it is a regular file, its
\* suffix, what is_dicom() does on it, and what dcmread() does on it
\* (0: raises, k > 0: returns Pool[k])
Entries ==
    [is_file : BOOLEAN, suffix : {".dcm", ".DAT", ""},
     probe : {"dicom", "not_dicom", "raises"}, read : 0..Len(Pool)]

\* iter_candidates(root, exts=(".dcm", ".dat")): is the entry yielded?
iter_candidates_yields(e) ==
    LET exts == {".dcm", ".dat"}
    IN /\ e.is_file
       /\ IF exts # {} /\ Lower(e.suffix) \notin exts
          THEN e.probe = "dicom"     \* is_dicom false or raising: continue
          ELSE e.probe = "dicom"     \* the same probe in the else branch

\* find_dicom_files(root_dir, extensions=None): is the file appended?
find_dicom_files_appends(e) ==
    LET extensions == {".dat"}
    IN Lower(e.suffix) \in extensions

Visited(e, yielded) ==
    [kind |-> "entry", is_file |-> e.is_file, suffix |-> e.suffix,
     probe |-> e.probe, yielded |-> yielded]

----------------------------------------------------------------------------
(* Sorting: list.sort(key=score, reverse=True) is stable, equal scores keep  *)
(* their order                                                               *)

\* ties put in front: what sorting ascending and reversing would give
InsertBeforeTies(sorted, x) ==
    LET k == Cardinality({i \in 1..Len(sorted) : sorted[i].score > x.score})
    IN SubSeq(sorted, 1, k) \o <<x>> \o SubSeq(sorted, k + 1, Len(sorted))

\* x placed behind every element whose score is at least x's
Insert(sorted, x) ==
    LET k == Cardinality({i \in 1..Len(sorted) : sorted[i].score >= x.score})
    IN SubSeq(sorted, 1, k) \o <<x>> \o SubSeq(sorted, k + 1, Len(sorted))

RECURSIVE SortByScoreDesc(_)
SortByScoreDesc(list) ==
    IF Len(list) = 0 THEN <<>>
    ELSE Insert(SortByScoreDesc(SubSeq(list, 1, Len(list) - 1)), list[Len(list)])

----------------------------------------------------------------------------
(* Pipeline runs *)

MinScores == {2, 3, 5}

Init ==
    /\ variant \in {1, 2}
    /\ pc = IF variant = 1 THEN "walk" ELSE "scan"
    /\ args \in [min_score : IF variant = 1 THEN MinScores ELSE {3},
                 limit : IF variant = 2 THEN 0..MaxLimit ELSE {0},
                 csv : IF variant = 2 THEN BOOLEAN ELSE {FALSE}]
    /\ ds = NoFields
    /\ analysis = [raised |-> FALSE, score |-> 0, reasons |-> <<>>]
    /\ walked = 0 /\ cur = NoEntry /\ considered = 0
    /\ dicom_files = <<>> /\ results = <<>> /\ cover_slides = <<>>
    /\ rows_out = <<>> /\ count = 0 /\ csv_file = <<>> /\ collected = <<>>

(* ---- variant 1: cover_scout.py main ---- *)

\* one file of os.walk inside find_dicom_files
Walk1 ==
    /\ variant = 1 /\ pc = "walk" /\ walked < MaxFiles
    /\ \E e \in Entries :
          /\ e.is_file
          /\ walked' = walked + 1
          /\ cur' = Visited(e, find_dicom_files_appends(e))
          /\ dicom_files' =
                IF find_dicom_files_appends(e)
                THEN Append(dicom_files, [path |-> walked + 1, read |-> e.read])
                ELSE dicom_files
    /\ UNCHANGED <<variant, pc, args, ds, analysis, results, cover_slides,
                   rows_out, count, csv_file, considered, collected>>

\* find_dicom_files returns
EndWalk1 ==
    /\ variant = 1 /\ pc = "walk"
    /\ pc' = "analyze"
    /\ UNCHANGED <<variant, args, ds, analysis, walked, cur, dicom_files, results,
                   cover_slides, rows_out, count, csv_file, considered, collected>>

\* analyze_dicom_file(file_path): the dict it returns, or "error"
analyze_dicom_file(f) ==
    IF f.read = 0 THEN [error |-> TRUE]                  \* dcmread raised
    ELSE LET a == is_potential_cover_slide(Pool1[f.read])
         IN IF a.raised THEN [error |-> TRUE]            \* caught by the same except
            ELSE [error |-> FALSE, path |-> f.path, score |-> a.score,
                  is_cover_slide |-> a.is_cover_slide, reasons |-> a.reasons]

\* one iteration of main's loop over dicom_files; considered is its position
Analyze1 ==
    /\ variant = 1 /\ pc = "analyze" /\ considered < Len(dicom_files)
    /\ LET result == analyze_dicom_file(dicom_files[considered + 1])
       IN results' = IF ~result.error THEN Append(results, result) ELSE results
    /\ considered' = considered + 1
    /\ UNCHANGED <<variant, pc, args, ds, analysis, walked, cur, dicom_files,
                   cover_slides, rows_out, count, csv_file, collected>>

\* results.sort(...) and the cover_slides comprehension
Finish1 ==
    /\ variant = 1 /\ pc = "analyze" /\ considered = Len(dicom_files)
    /\ collected' = results
    /\ results' = SortByScoreDesc(results)
    /\ cover_slides' = SelectSeq(results', LAMBDA r : r.score >= args.min_score)
    /\ pc' = "done"
    /\ UNCHANGED <<variant, args, ds, analysis, walked, cur, dicom_files,
                   rows_out, count, csv_file, considered>>

(* ---- variant 2: coverscout.py main ---- *)

\* the dict appended to rows_out
RowOf(path, d) ==
    [path |-> path,
     score |-> score_dicom(d).score,
     modality |-> safe_get(d, "Modality", ""),
     series_description |-> safe_get(d, "SeriesDescription", ""),
     photometric |-> safe_get(d, "PhotometricInterpretation", ""),
     samples_per_pixel |-> safe_get(d, "SamplesPerPixel", ""),
     rows |-> safe_get(d, "Rows", ""),
     cols |-> safe_get(d, "Columns", ""),
     burned_in_annotation |-> safe_get(d, "BurnedInAnnotation", "")]

\* key order of that dict
ROW_KEYS ==
    <<"path", "score", "modality", "series_description", "photometric",
      "samples_per_pixel", "rows", "cols", "burned_in_annotation">>

\* the walk meets an entry iter_candidates does not yield
Skip2 ==
    /\ variant = 2 /\ pc = "scan" /\ walked < MaxFiles
    /\ \E e \in Entries :
          /\ ~iter_candidates_yields(e)
          /\ cur' = Visited(e, FALSE)
    /\ walked' = walked + 1
    /\ UNCHANGED <<variant, pc, args, ds, analysis, dicom_files, results,
                   cover_slides, rows_out, count, csv_file, considered, collected>>

\* a yielded file on which dcmread raises: `continue`
ReadFails2 ==
    /\ variant = 2 /\ pc = "scan" /\ walked < MaxFiles
    /\ \E e \in Entries :
          /\ iter_candidates_yields(e) /\ e.read = 0
          /\ cur' = Visited(e, TRUE)
    /\ walked' = walked + 1
    /\ considered' = considered + 1
    /\ UNCHANGED <<variant, pc, args, ds, analysis, dicom_files, results,
                   cover_slides, rows_out, count, csv_file, collected>>

\* a yielded file that is read: scored, appended, counted, and the limit tested
ReadOk2 ==
    /\ variant = 2 /\ pc = "scan" /\ walked < MaxFiles
    /\ \E e \in Entries :
          /\ iter_candidates_yields(e) /\ e.read > 0
          /\ cur' = Visited(e, TRUE)
          /\ rows_out' = Append(rows_out, RowOf(walked + 1, Pool2[e.read]))
    /\ walked' = walked + 1
    /\ considered' = considered + 1
    /\ count' = count + 1
    /\ pc' = IF args.limit # 0 /\ count' >= args.limit THEN "sort" ELSE "scan"
    /\ UNCHANGED <<variant, args, ds, analysis, dicom_files, results,
                   cover_slides, csv_file, collected>>

\* the generator is exhausted
Exhausted2 ==
    /\ variant = 2 /\ pc = "scan"
    /\ pc' = "sort"
    /\ UNCHANGED <<variant, args, ds, analysis, walked, cur, dicom_files, results,
                   cover_slides, rows_out, count, csv_file, considered, collected>>

\* rows_out.sort(key=score, reverse=True)
Sort2 ==
    /\ variant = 2 /\ pc = "sort"
    /\ collected' = rows_out
    /\ rows_out' = SortByScoreDesc(rows_out)
    /\ pc' = "report"
    /\ UNCHANGED <<variant, args, ds, analysis, walked, cur, dicom_files, results,
                   cover_slides, count, csv_file, considered>>

\* what csv.DictWriter writes: the header, then one row per dict
CsvRows(list, fieldnames) ==
    <<fieldnames>> \o
    [i \in 1..Len(list) |-> [j \in 1..Len(fieldnames) |-> list[i][fieldnames[j]]]]

\* the table is printed, then `if args.csv:` writes the file;
\* rows_out[0] raises IndexError on an empty list
Report2 ==
    /\ variant = 2 /\ pc = "report"
    /\ IF ~args.csv
       THEN pc' = "done" /\ UNCHANGED csv_file
       ELSE IF Len(rows_out) = 0
            THEN pc' = "crashed" /\ UNCHANGED csv_file
            ELSE pc' = "done" /\ csv_file' = CsvRows(rows_out, ROW_KEYS)
    /\ UNCHANGED <<variant, args, ds, analysis, walked, cur, dicom_files, results,
                   cover_slides, rows_out, count, considered, collected>>

Next ==
    \/ Walk1 \/ EndWalk1 \/ Analyze1 \/ Finish1
    \/ Skip2 \/ ReadFails2 \/ ReadOk2 \/ Exhausted2 \/ Sort2 \/ Report2

Spec == Init /\ [][Next]_vars

----------------------------------------------------------------------------
(* Properties of the scorers, checked under SpecScore *)

Returned == pc = "returned" /\ ~analysis.raised

\* weight of the rule a reason of cover_scout.py belongs to
Weight1(reason) ==
    CASE reason = "Image Type: SECONDARY" -> 3
      [] reason = "Image Type: LOCALIZER/SCOUT" -> 5
      [] reason = "Image Type: SCREEN SAVE" -> 4
      [] reason = "Instance Number: 1" -> 2
      [] reason = "Burned In Annotation: YES" -> 5
      [] reason = "SOP Class: Secondary Capture" -> 4
      [] reason = "SOP Class: Presentation State" -> 3
      [] reason = "Conversion Type" -> 3
      [] reason = "Unusual aspect ratio" -> 1

\* weight of the rule a reason of coverscout.py belongs to
Weight2(reason) ==
    CASE reason = "modality=" -> 4
      [] reason = "photometric=" -> 3
      [] reason = "samples_per_pixel=3" -> 2
      [] reason = "series_desc~" -> 2
      [] reason = "image_type=secondary/derived" -> 1
      [] reason = "burned_in_annotation=YES" -> 1
      [] reason = "aspect_ratio" -> 1
      [] reason = "ct_like_square_slice" -> -3
      [] reason = "ct_grayscale" -> -1
      [] reason = "unknown_modality_but_colorish" -> 1

RECURSIVE SumWeights(_, _)
SumWeights(reasons, v) ==
    IF reasons = <<>> THEN 0
    ELSE (IF v = 1 THEN Weight1(Head(reasons)) ELSE Weight2(Head(reasons)))
         + SumWeights(Tail(reasons), v)

Fired(reason) == \E i \in 1..Len(analysis.reasons) : analysis.reasons[i] = reason

NoDuplicateReason ==
    \A i, j \in 1..Len(analysis.reasons) :
        analysis.reasons[i] = analysis.reasons[j] => i = j

\* C1: whenever a scorer returns, the score equals the sum of the weights of
\* the rules whose reason is in the returned list, each rule appearing once.
C1_ScoreIsSumOfReasonWeights ==
    Returned => /\ analysis.score = SumWeights(analysis.reasons, variant)
                /\ NoDuplicateReason

C1_Witness ==
    /\ Returned /\ variant = 2
    /\ Len(analysis.reasons) >= 4
    /\ Fired("samples_per_pixel=3") /\ Fired("ct_like_square_slice")

\* C8: the scorer returns a score and reasons for every dataset; it never raises.
C8_ScorerNeverRaises == pc = "returned" => ~analysis.raised

CTMonochromeSquare ==
    /\ ds.Modality = <<"CT">>
    /\ ds.PhotometricInterpretation \in {<<"MONOCHROME1">>, <<"MONOCHROME2">>}
    /\ ds.Rows \in {<<512>>, <<1024>>}
    /\ ds.Columns \in {<<512>>, <<1024>>}

CTSignals == {"ct_like_square_slice", "ct_grayscale", "unknown_modality_but_colorish"}

\* C9: score_dicom fires at most one of ct_like_square_slice, ct_grayscale and
\* unknown_modality_but_colorish; a CT, MONOCHROME record with rows and cols in
\* {512, 1024} fires ct_like_square_slice, worth -3, and neither of the others.
C9_CTSignalsExclusive ==
    (Returned /\ variant = 2) =>
        /\ Cardinality({i \in 1..Len(analysis.reasons) :
                            analysis.reasons[i] \in CTSignals}) <= 1
        /\ CTMonochromeSquare =>
              /\ Fired("ct_like_square_slice")
              /\ analysis.score =
                    SumWeights(SelectSeq(analysis.reasons,
                                         LAMBDA r : r # "ct_like_square_slice"), 2) - 3

C9_Witness ==
    /\ Returned /\ variant = 2 /\ CTMonochromeSquare
    /\ ds.Rows # ds.Columns /\ ds.SamplesPerPixel = <<3>>
    /\ Fired("ct_like_square_slice")

\* C10: for positive rows and cols the aspect-ratio signal fires exactly when
\* max(rows, cols) / min(rows, cols) exceeds 1.5 (cover_scout.py) or 1.3
\* (coverscout.py).
C10_AspectFiresIffRatioExceeds ==
    (Returned /\ hasattr(ds, "Rows") /\ hasattr(ds, "Columns")
       /\ ds.Rows[1] > 0 /\ ds.Columns[1] > 0) =>
        LET mx == IF ds.Rows[1] >= ds.Columns[1] THEN ds.Rows[1] ELSE ds.Columns[1]
            mn == IF ds.Rows[1] >= ds.Columns[1] THEN ds.Columns[1] ELSE ds.Rows[1]
        IN IF variant = 1
           THEN Fired("Unusual aspect ratio") <=> (2 * mx > 3 * mn)
           ELSE Fired("aspect_ratio") <=> (10 * mx > 13 * mn)

----------------------------------------------------------------------------
(* Properties of the pipelines, checked under Spec *)

\* the list of findings of the run
Report == IF variant = 1 THEN results ELSE rows_out

AfterSort == pc \in {"report", "done", "crashed"}

\* C2: every finding's is_cover_slide flag equals score >= --min-score, the
\* threshold that decides membership in the cover_slides list.
C2_FlagMatchesMinScore ==
    (variant = 1 /\ pc = "done") =>
        \A i \in 1..Len(results) :
            /\ results[i].is_cover_slide = (results[i].score >= args.min_score)
            /\ results[i].is_cover_slide =
                  (\E j \in 1..Len(cover_slides) : cover_slides[j].path = results[i].path)

\* a step on which the reader was invoked on one more file and no finding was added
FailedRead == considered' = considered + 1 /\ Len(Report') = Len(Report)

\* the integer counters main keeps besides the list of findings
Counters == <<count>>

\* C3: a file whose read raises adds nothing to the report and increments a
\* failure counter by exactly one.
C3_FailedReadIsCounted ==
    [][FailedRead =>
          /\ Report' = Report
          /\ \E k \in 1..Len(Counters) : Counters'[k] = Counters[k] + 1]_vars

\* C4: after the sort the report is in descending score order, findings of
\* equal score are in traversal order, and the report is a permutation of the
\* findings collected.
C4_SortedStablePermutation ==
    AfterSort =>
        /\ \A i \in 1..Len(Report) - 1 : Report[i].score >= Report[i + 1].score
        /\ \A i, j \in 1..Len(Report) :
              (i < j /\ Report[i].score = Report[j].score)
                  => Report[i].path < Report[j].path
        /\ Len(Report) = Len(collected)
        /\ \A i \in 1..Len(collected) :
              \E j \in 1..Len(Report) :
                  /\ Report[j].path = collected[i].path
                  /\ Report[j].score = collected[i].score
        /\ \A i, j \in 1..Len(Report) : Report[i].path = Report[j].path => i = j

C4_Witness ==
    /\ AfterSort /\ Len(Report) = 3
    /\ Report[1].score = Report[2].score
    /\ Report[2].score > Report[3].score
    /\ collected[1].path = Report[3].path

\* the allow-list of the variant's locator
AllowList == IF variant = 1 THEN {".dat"} ELSE {".dcm", ".dat"}

\* C5: a regular file is yielded exactly when its extension is in the
\* allow-list or the header probe reports a valid record.
C5_YieldedIffExtensionOrProbe ==
    (cur.kind = "entry" /\ cur.is_file) =>
        (cur.yielded <=> (Lower(cur.suffix) \in AllowList \/ cur.probe = "dicom"))

\* C6: with --limit L > 0 the reader is invoked on at most L files, and the
\* report holds exactly the findings of the files read; with L = 0 every
\* located file is read.
C6_AtMostLimitReads ==
    variant = 2 =>
        /\ args.limit > 0 => considered <= args.limit
        /\ Len(rows_out) = count

\* C7: a requested CSV export never fails and writes the header row followed
\* by one row per finding, in report order.
C7_CsvExportCompletes ==
    variant = 2 =>
        /\ pc # "crashed"
        /\ (pc = "done" /\ args.csv) =>
              /\ Len(csv_file) = 1 + Len(rows_out)
              /\ csv_file[1] = ROW_KEYS
              /\ \A i \in 1..Len(rows_out) :
                    /\ csv_file[i + 1][1] = rows_out[i].path
                    /\ csv_file[i + 1][2] = rows_out[i].score

====
